---- MODULE Spec2Model ----
(***************************************************************************)
(* Model of the API-call arbitration layer: the InteractionCoordinator     *)
(* (signal queue, cooldown gate, signal selection, failure handling) and   *)
(* the ApiKeyManager key pool with the callGeminiAPI retry loop.           *)
(*                                                                         *)
(* Time is the value of Date.now() in milliseconds, sampled every          *)
(* TIME_STEP: the Advance action moves the clock and every handler runs at *)
(* the sampled instant, so two handler runs between two Advance steps read *)
(* the same Date.now().  The 30-second timer callback may run at any       *)
(* sampled instant.                                                        *)
(* JavaScript runs each handler to its next await without interleaving, so *)
(* an action is one such run: signalReceived up to the first fetch, the    *)
(* settling of a fetch up to the next fetch, delay or the end of the       *)
(* cycle, the end of a retry delay, one timer callback.                    *)
(***************************************************************************)
EXTENDS Integers, Sequences, FiniteSets, TLC

\* ---------------------------------------------------------------- bounds
NumKeys == 2          \* number of credentials in GEMINI_API_KEYS
MaxSteps == 2         \* clock steps explored by Spec
MaxSignals == 3       \* signalReceived calls explored by Spec
MaxCalls == 2         \* coordinator cycles explored by Spec and SpecPool
MaxQueueSignals == 12 \* signalReceived calls explored by SpecQueue
MaxPoolSteps == 5     \* clock steps explored by SpecPool
MaxPoolSignals == 2   \* signalReceived calls explored by SpecPool
MaxCycleSignals == 2  \* signalReceived calls explored by SpecCycle
MaxEmergencySteps == 12 \* clock steps explored by SpecEmergency
MaxListeners == 3     \* registrations explored by SpecListeners
MaxWindowAnalyses == 1 \* context-service calls in flight explored by SpecProcess
MaxIntervals == 24   \* setInterval calls explored by SpecMonitoring
MaxInitializations == 3 \* initializeCoreServices calls explored by SpecMain
MaxGameInitializations == 3 \* phaserManager.initialize calls explored by SpecPhaser
MaxSessions == 3      \* focus sessions and breaks explored by SpecFocus
MaxTimeouts == 5      \* setTimeout calls explored by SpecFocus

\* ------------------------------------------------------ program constants
COOLDOWN_DURATION == 4 * 60 * 1000
EMERGENCY_COOLDOWN == 10 * 60 * 1000
MAX_QUEUE_SIZE == 10
PRIORITY_SIGNALS == {"idle_detected", "activity_spike"}
MAX_FAIL_COUNT == 3
HEALTH_CHECK_COOLDOWN == 300000
TIME_STEP == 2 * 60 * 1000
SignalTypes ==
  {"window_change", "clipboard_update", "idle_detected", "activity_spike", "weather_update"}
fallbackMessages ==
  << "Toi dang nghi giai lao mot chut...", "Hay tap trung vao cong viec nhe!",
     "Da den luc uong nuoc chua?", "Ban dang lam rat tot!",
     "Dung quen nghi ngoi dung luc!" >>

\* Date.now() when the module is loaded: far more than any cooldown after 0.
StartTime == 3 * EMERGENCY_COOLDOWN

Min(S) == CHOOSE x \in S : \A y \in S : x <= y
MinOf(a, b) == IF a <= b THEN a ELSE b
RemoveAt(q, i) == SubSeq(q, 1, i - 1) \o SubSeq(q, i + 1, Len(q))

VARIABLES
  now,          \* Date.now()
  state,        \* InteractionCoordinatorSingleton.state
  keyStatuses,  \* ApiKeyManager.keyStatuses, indexed from 0
  currentIndex, \* ApiKeyManager.currentIndex
  calls,        \* the makeIntelligentAPICall invocations in flight, in start order,
                \* and those that returned in the latest step
  lastScan,     \* what getNextApiKey returned in the latest step, and how far it scanned
  thoughtBubbleListeners, \* InteractionCoordinatorSingleton.thoughtBubbleListeners
  notified,     \* the notification of the latest step: who was called, with what
  contextManager, \* ContextManager: isMonitoring, its timer handles, the intervals
                \* the runtime holds, the weather fetches awaited
  mainServiceManager, \* MainServiceManager: isInitialized, serviceStatus and where
                \* each initializeCoreServices invocation stands
  phaserManager, \* PhaserManagerSingleton: game, isInitialized, the registry, the
                \* games the runtime holds, where each initialize invocation stands
  focusManager  \* FocusManagementEngine: currentSession, sessionTimer, the
                \* timeouts the runtime holds, the sessions completed

coordinatorVars == << now, state, keyStatuses, currentIndex, calls, lastScan,
                      thoughtBubbleListeners, notified >>
serviceVars == << contextManager, mainServiceManager, phaserManager, focusManager >>
vars == << now, state, keyStatuses, currentIndex, calls, lastScan,
           thoughtBubbleListeners, notified, contextManager, mainServiceManager,
           phaserManager, focusManager >>

KeyIndexes == 0 .. (NumKeys - 1)
\* A payload: the fields of signal.data the coordinator reads; "" is a field
\* that is absent (or data itself is null).
NoData == [title |-> "", duration |-> "", type |-> ""]
Payloads == [title : {"", "passwords.txt"}, duration : {"", "600"}, type : {"", "coding"}]
\* What getCurrentTimeInfo() and useSettingStore.getState() answer.
DefaultEnv == [timeOfDay |-> "morning", city |-> "Hanoi"]
Envs == [timeOfDay : {"morning", "evening"}, city : {"Hanoi", "Hue"}]
NoSignal == [type |-> "none", data |-> NoData, timestamp |-> 0, id |-> 0]
NoScan == [index |-> 0, examined |-> 0, reset |-> FALSE, allDown |-> FALSE]
NoNotification ==
  [published |-> FALSE, registered |-> << >>, received |-> << >>, escaped |-> FALSE]

\* ------------------------------------------------------------ ApiKeyManager
ApiKeyManagerInit ==
  [i \in KeyIndexes |-> [failCount |-> 0, lastFailTime |-> 0, isHealthy |-> TRUE]]

\* resetAllKeyStatus that marks the keys healthy and keeps their failure counts.
resetAllKeyStatus_keepCounts(ks) ==
  [i \in DOMAIN ks |-> [ks[i] EXCEPT !.isHealthy = TRUE, !.lastFailTime = 0]]

resetAllKeyStatus(ks) ==
  [i \in DOMAIN ks |-> [failCount |-> 0, lastFailTime |-> 0, isHealthy |-> TRUE]]

\* The scan with its loop condition written i <= length.
RECURSIVE ScanKeys_oneMore(_, _, _, _)
ScanKeys_oneMore(ks, cur, t, i) ==
  IF i <= NumKeys
    THEN LET index == (cur + i) % NumKeys
         IN IF ks[index].isHealthy \/ (t - ks[index].lastFailTime > HEALTH_CHECK_COOLDOWN)
              THEN [found |-> TRUE, index |-> index, examined |-> i + 1]
              ELSE ScanKeys_oneMore(ks, cur, t, i + 1)
    ELSE [found |-> FALSE, index |-> 0, examined |-> i]

\* The scan started at key 0 instead of the cursor.
RECURSIVE ScanKeys_fromZero(_, _, _, _)
ScanKeys_fromZero(ks, cur, t, i) ==
  IF i < NumKeys
    THEN LET index == i % NumKeys
         IN IF ks[index].isHealthy \/ (t - ks[index].lastFailTime > HEALTH_CHECK_COOLDOWN)
              THEN [found |-> TRUE, index |-> index, examined |-> i + 1]
              ELSE ScanKeys_fromZero(ks, cur, t, i + 1)
    ELSE [found |-> FALSE, index |-> 0, examined |-> i]

\* The for loop of getNextApiKey from iteration i on: the first index, in cyclic
\* order from the cursor, that is healthy or has cooled down.
RECURSIVE ScanKeys(_, _, _, _)
ScanKeys(ks, cur, t, i) ==
  IF i < NumKeys
    THEN LET index == (cur + i) % NumKeys
         IN IF ks[index].isHealthy \/ (t - ks[index].lastFailTime > HEALTH_CHECK_COOLDOWN)
              THEN [found |-> TRUE, index |-> index, examined |-> i + 1]
              ELSE ScanKeys(ks, cur, t, i + 1)
    ELSE [found |-> FALSE, index |-> 0, examined |-> i]

\* getNextApiKey that leaves the cursor where it was.
getNextApiKey_stuck(ks, cur, t) ==
  LET s == ScanKeys(ks, cur, t, 0)
  IN IF s.found
       THEN [index |-> s.index, keyStatuses |-> ks,
             currentIndex |-> cur,
             examined |-> s.examined, reset |-> FALSE]
       ELSE [index |-> 0, keyStatuses |-> resetAllKeyStatus(ks),
             currentIndex |-> cur, examined |-> s.examined, reset |-> TRUE]

getNextApiKey(ks, cur, t) ==
  LET s == ScanKeys(ks, cur, t, 0)
  IN IF s.found
       THEN [index |-> s.index, keyStatuses |-> ks,
             currentIndex |-> (s.index + 1) % NumKeys,
             examined |-> s.examined, reset |-> FALSE]
       ELSE [index |-> 0, keyStatuses |-> resetAllKeyStatus(ks),
             currentIndex |-> cur, examined |-> s.examined, reset |-> TRUE]

\* recordSuccess that marks the key healthy and keeps its failure count.
recordSuccess_keepCount(ks, keyIndex) ==
  IF keyIndex >= 0 /\ keyIndex < NumKeys
    THEN [ks EXCEPT ![keyIndex] = [@ EXCEPT !.isHealthy = TRUE, !.lastFailTime = 0]]
    ELSE ks

recordSuccess(ks, keyIndex) ==
  IF keyIndex >= 0 /\ keyIndex < NumKeys
    THEN [ks EXCEPT ![keyIndex] = [failCount |-> 0, lastFailTime |-> 0, isHealthy |-> TRUE]]
    ELSE ks

\* recordFailure that marks the key unhealthy only above MAX_FAIL_COUNT failures.
recordFailure_above(ks, keyIndex, t) ==
  IF keyIndex >= 0 /\ keyIndex < NumKeys
    THEN [ks EXCEPT ![keyIndex] =
            [failCount |-> @.failCount + 1, lastFailTime |-> t,
             isHealthy |-> IF @.failCount + 1 > MAX_FAIL_COUNT THEN FALSE ELSE @.isHealthy]]
    ELSE ks

\* recordFailure that stamps the time of the failures of a healthy key only.
recordFailure_firstStamp(ks, keyIndex, t) ==
  [ks EXCEPT ![keyIndex] =
     [failCount |-> @.failCount + 1,
      lastFailTime |-> IF @.isHealthy THEN t ELSE @.lastFailTime,
      isHealthy |-> @.isHealthy /\ @.failCount + 1 < MAX_FAIL_COUNT]]

recordFailure(ks, keyIndex, t) ==
  IF keyIndex >= 0 /\ keyIndex < NumKeys
    THEN [ks EXCEPT ![keyIndex] =
            [failCount |-> @.failCount + 1, lastFailTime |-> t,
             isHealthy |-> IF @.failCount + 1 >= MAX_FAIL_COUNT THEN FALSE ELSE @.isHealthy]]
    ELSE ks

getHealthReport(ks) ==
  [healthy |-> Cardinality({i \in DOMAIN ks : ks[i].isHealthy}), total |-> NumKeys]

\* Every key is unhealthy and none has been failure-free for more than the cooldown.
AllDown(ks, t) ==
  \A i \in DOMAIN ks : ~ks[i].isHealthy /\ t - ks[i].lastFailTime <= HEALTH_CHECK_COOLDOWN

\* --------------------------------------------------------- callGeminiAPI
\* An attempt budget of three attempts per credential.
maxAttempts_threeEach == MinOf(NumKeys * 3, 10)

maxAttempts == MinOf(NumKeys * 2, 10)

\* What one attempt (fetch, then response.json()) can settle to.
SuccessOutcomes == {"structured", "plain"}
\* The last one is response.json() rejecting with a SyntaxError whose message
\* names offset 429 of the body.
FailureOutcomes ==
  {"HTTP 429", "HTTP 500", "network error", "invalid response", "invalid JSON at position 429"}
\* lastError.includes('429'), on the messages above.
Includes429(err) == err \in {"HTTP 429", "invalid JSON at position 429"}

\* The world the handlers act on; Commit writes one back to the variables.
World ==
  [state |-> state, keyStatuses |-> keyStatuses, currentIndex |-> currentIndex,
   calls |-> calls, lastScan |-> NoScan,
   thoughtBubbleListeners |-> thoughtBubbleListeners, notified |-> NoNotification,
   env |-> DefaultEnv]

\* Head of the while loop for cycle c: take a key, count the attempt, issue the fetch.
startAttempt(w, c, t) ==
  LET r == getNextApiKey(w.keyStatuses, w.currentIndex, t)
  IN [w EXCEPT !.keyStatuses = r.keyStatuses,
               !.currentIndex = r.currentIndex,
               !.lastScan = [index |-> r.index, examined |-> r.examined, reset |-> r.reset,
                             allDown |-> AllDown(w.keyStatuses, t)],
               !.calls[c] = [@ EXCEPT !.pc = "fetch",
                                      !.attemptsCount = @ + 1,
                                      !.keyIndex = r.index]]

\* ------------------------------------------------- InteractionCoordinator
CoordinatorInit ==
  [lastAPICall |-> 0, totalSignalsReceived |-> 0, totalAPICallsMade |-> 0,
   signalQueue |-> << >>, cooldownActive |-> FALSE, emergencyMode |-> FALSE]

removeSignalFromQueue(q, signal) ==
  LET hits == {i \in 1 .. Len(q) : q[i].timestamp = signal.timestamp}
  IN IF hits = {} THEN q ELSE RemoveAt(q, Min(hits))

\* selectBestSignal that takes the oldest signal when no priority signal is queued.
selectBestSignal_oldest(q) ==
  IF Len(q) = 0
    THEN [signal |-> NoSignal, queue |-> q]
    ELSE LET pri == {i \in 1 .. Len(q) : q[i].type \in PRIORITY_SIGNALS}
         IN IF pri # {}
              THEN [signal |-> q[Min(pri)], queue |-> removeSignalFromQueue(q, q[Min(pri)])]
              ELSE [signal |-> q[1], queue |-> Tail(q)]

\* selectBestSignal that returns the signal and leaves it in the queue.
selectBestSignal_peek(q) ==
  IF Len(q) = 0
    THEN [signal |-> NoSignal, queue |-> q]
    ELSE LET pri == {i \in 1 .. Len(q) : q[i].type \in PRIORITY_SIGNALS}
         IN IF pri # {}
              THEN [signal |-> q[Min(pri)], queue |-> q]
              ELSE [signal |-> q[Len(q)], queue |-> q]

selectBestSignal(q) ==
  IF Len(q) = 0
    THEN [signal |-> NoSignal, queue |-> q]
    ELSE LET pri == {i \in 1 .. Len(q) : q[i].type \in PRIORITY_SIGNALS}
         IN IF pri # {}
              THEN [signal |-> q[Min(pri)], queue |-> removeSignalFromQueue(q, q[Min(pri)])]
              ELSE [signal |-> q[Len(q)], queue |-> SubSeq(q, 1, Len(q) - 1)]

\* A listener is a function: which one it is, whether it throws when called,
\* and whether it takes itself back (removeThoughtBubbleListener on itself)
\* when called.
Listeners == [fn : 1 .. 2, throws : BOOLEAN, unsubscribes : BOOLEAN]

\* The listeners that leave the registrations alone.
ListenerFunctions == {listener \in Listeners : ~listener.unsubscribes}

addThoughtBubbleListener(w, listener) ==
  [w EXCEPT !.thoughtBubbleListeners = Append(@, listener)]

\* indexOf, then splice of that one position.
removeThoughtBubbleListener(w, listener) ==
  LET hits == {i \in 1 .. Len(w.thoughtBubbleListeners) : w.thoughtBubbleListeners[i] = listener}
  IN IF hits = {}
       THEN w
       ELSE [w EXCEPT !.thoughtBubbleListeners = RemoveAt(@, Min(hits))]

\* What the call of listener ls[i] leaves of the array.
afterCallback(ls, i) ==
  IF ls[i].unsubscribes
    THEN removeThoughtBubbleListener([thoughtBubbleListeners |-> ls], ls[i]).thoughtBubbleListeners
    ELSE ls

\* forEach with the try around the whole loop: the first throw ends the loop.
RECURSIVE forEachListener_tryOutside(_, _, _, _)
forEachListener_tryOutside(ls, message, i, acc) ==
  IF i > Len(ls)
    THEN [notified |-> acc, listeners |-> ls]
    ELSE LET r == [acc EXCEPT !.received = Append(@, [listener |-> ls[i], message |-> message])]
         IN IF ls[i].throws
              THEN [notified |-> r, listeners |-> afterCallback(ls, i)]
              ELSE forEachListener_tryOutside(afterCallback(ls, i), message, i + 1, r)

\* Array.prototype.forEach over the listeners from position i on: it reads the
\* array itself at each position, so what a callback splices out moves the
\* later listeners one position down. Each listener is called inside its own
\* try, and the catch block logs the exception and goes on.
RECURSIVE forEachListener(_, _, _, _)
forEachListener(ls, message, i, acc) ==
  IF i > Len(ls)
    THEN [notified |-> acc, listeners |-> ls]
    ELSE LET thrown == ls[i].throws
             caught == thrown
             r == [acc EXCEPT !.received = Append(@, [listener |-> ls[i], message |-> message]),
                              !.escaped = @ \/ (thrown /\ ~caught)]
         IN IF r.escaped
              THEN [notified |-> r, listeners |-> afterCallback(ls, i)]
              ELSE forEachListener(afterCallback(ls, i), message, i + 1, r)

\* bubbles keeps what the cycle of invocation c published.
notifyThoughtBubbleListeners(w, c, bubble) ==
  LET done == forEachListener(w.thoughtBubbleListeners, bubble, 1,
                              [published |-> TRUE, registered |-> w.thoughtBubbleListeners,
                               received |-> << >>, escaped |-> FALSE])
  IN [w EXCEPT !.calls[c].bubbles = Append(@, bubble),
               !.notified = done.notified,
               !.thoughtBubbleListeners = done.listeners]

\* r is the index Math.random() draws in the canned pool.
sendOfflineFallbackMessage(w, c, r) ==
  notifyThoughtBubbleListeners(w, c,
    [icon |-> "thought", message |-> fallbackMessages[r], format |-> "offline_fallback"])

\* handleAPIFailure that sends the fallback and forgets to raise emergencyMode.
handleAPIFailure_noEmergency(w, c, err, r) ==
  IF Includes429(err) THEN sendOfflineFallbackMessage(w, c, r) ELSE w

handleAPIFailure(w, c, err, r) ==
  IF Includes429(err)
    THEN sendOfflineFallbackMessage([w EXCEPT !.state.emergencyMode = TRUE], c, r)
    ELSE w

\* The cycle is over: the locals of callGeminiAPI are gone, what stays is how the
\* cycle ended ("success", or the error the exhausted loop reported, beside the
\* error of its last attempt) and what the listeners were sent; only429 tells
\* whether every attempt was rate limited.
returned(call, result) ==
  [call EXCEPT !.pc = "done", !.attemptsCount = 0, !.keyIndex = 0,
               !.lastError = IF result = "success" THEN "" ELSE @,
               !.result = result]

\* a || b on strings: "" is falsy.
OrElse(a, b) == IF a = "" THEN b ELSE a

createLightweightContext(signal, env, t) ==
  LET specificContext ==
        CASE signal.type = "window_change" ->
               [windowTitle |-> OrElse(signal.data.title, "Unknown App"),
                action |-> "switched_to"]
          [] signal.type = "idle_detected" ->
               [idleDuration |-> OrElse(signal.data.duration, "unknown"),
                action |-> "idle_break"]
          [] signal.type = "activity_spike" ->
               [activityType |-> OrElse(signal.data.type, "work"),
                action |-> "productivity_boost"]
          [] OTHER -> [action |-> "general_context"]
  IN specificContext @@
     [timeOfDay |-> env.timeOfDay, city |-> env.city, signalType |-> signal.type,
      timestamp |-> t]

\* context[name], "" when the context has no such property.
Property(context, name) == IF name \in DOMAIN context THEN context[name] ELSE ""

\* generateThoughtMessage that puts the window title into the user query.
generateThoughtMessage_withTitle(context) ==
  LET weatherPart == IF Property(context, "weather") # ""
                       THEN << "weather in", Property(context, "city"), "is",
                               Property(context, "weather") >>
                       ELSE << >>
  IN [systemInstruction |-> OrElse(Property(context, "customPrompt"), "Airi instruction"),
      userQuery |-> << "now is", Property(context, "timeOfDay"),
                       Property(context, "windowTitle") >> \o weatherPart
                    \o << "surprise message" >>]

\* The system instruction and the user query generateThoughtMessage passes to
\* callGeminiAPI, the template strings as the sequences of their parts.
generateThoughtMessage(context) ==
  LET weatherPart == IF Property(context, "weather") # ""
                       THEN << "weather in", Property(context, "city"), "is",
                               Property(context, "weather") >>
                       ELSE << >>
  IN [systemInstruction |-> OrElse(Property(context, "customPrompt"), "Airi instruction"),
      userQuery |->
        IF Property(context, "isLongSession") # ""
          THEN << "now is", Property(context, "timeOfDay"), "worked over 20 minutes" >>
               \o weatherPart \o << "rest reminder" >>
          ELSE << "now is", Property(context, "timeOfDay") >>
               \o weatherPart \o << "surprise message" >>]

\* makeIntelligentAPICall that holds its caller until the call has settled.
makeIntelligentAPICall_settled(w, signal, t) ==
  LET c == Len(w.calls) + 1
      lightweightContext == createLightweightContext(signal, w.env, t)
      w1 == [w EXCEPT !.state.cooldownActive = TRUE,
                      !.state.lastAPICall = t,
                      !.state.totalAPICallsMade = @ + 1,
                      !.calls = Append(@, [signal |-> signal, pc |-> "start",
                                           attemptsCount |-> 0, keyIndex |-> 0,
                                           lastError |-> "", only429 |-> TRUE,
                                           result |-> "pending",
                                           bubbles |-> << >>,
                                           lightweightContext |-> lightweightContext,
                                           prompt |->
                                             generateThoughtMessage(lightweightContext)])]
      w2 == startAttempt(w1, c, t)
      bubble == [icon |-> "thought", message |-> "hello", format |-> "json_structured"]
  IN [notifyThoughtBubbleListeners(w2, c, bubble) EXCEPT
        !.state.emergencyMode = FALSE,
        !.state.cooldownActive = FALSE,
        !.calls[c] = returned(@, "success")]

\* A start that leaves lastAPICall as it was.
makeIntelligentAPICall_noStamp(w, signal, t) ==
  LET c == Len(w.calls) + 1
      lightweightContext == createLightweightContext(signal, w.env, t)
      w1 == [w EXCEPT !.state.cooldownActive = TRUE,
                      !.state.totalAPICallsMade = @ + 1,
                      !.calls = Append(@, [signal |-> signal, pc |-> "start",
                                           attemptsCount |-> 0, keyIndex |-> 0,
                                           lastError |-> "", only429 |-> TRUE,
                                           result |-> "pending",
                                           bubbles |-> << >>,
                                           lightweightContext |-> lightweightContext,
                                           prompt |->
                                             generateThoughtMessage(lightweightContext)])]
  IN startAttempt(w1, c, t)

\* makeIntelligentAPICall up to its await: the call is started.
makeIntelligentAPICall(w, signal, t) ==
  LET c == Len(w.calls) + 1
      lightweightContext == createLightweightContext(signal, w.env, t)
      w1 == [w EXCEPT !.state.cooldownActive = TRUE,
                      !.state.lastAPICall = t,
                      !.state.totalAPICallsMade = @ + 1,
                      !.calls = Append(@, [signal |-> signal, pc |-> "start",
                                           attemptsCount |-> 0, keyIndex |-> 0,
                                           lastError |-> "", only429 |-> TRUE,
                                           result |-> "pending",
                                           bubbles |-> << >>,
                                           lightweightContext |-> lightweightContext,
                                           prompt |->
                                             generateThoughtMessage(lightweightContext)])]
  IN startAttempt(w1, c, t)

\* A success path that leaves emergency mode on.
callSucceeded_keepEmergency(w, c, outcome, text) ==
  LET bubble == [icon |-> IF outcome = "structured" THEN "parsed" ELSE "thought",
                 message |-> text, format |-> "json_structured"]
      w1 == notifyThoughtBubbleListeners(w, c, bubble)
  IN [w1 EXCEPT !.state.cooldownActive = FALSE,
                !.calls[c] = returned(@, "success")]

\* makeIntelligentAPICall from the await on, when the retry loop returned success.
callSucceeded(w, c, outcome, text) ==
  LET bubble == [icon |-> IF outcome = "structured" THEN "parsed" ELSE "thought",
                 message |-> text, format |-> "json_structured"]
      w1 == notifyThoughtBubbleListeners(w, c, bubble)
  IN [w1 EXCEPT !.state.emergencyMode = FALSE,
                !.state.cooldownActive = FALSE,
                !.calls[c] = returned(@, "success")]

\* makeIntelligentAPICall from the await on, when the retry loop returned failure:
\* the throw, the catch and the finally.
callFailed(w, c, err, r) ==
  LET w1 == handleAPIFailure(w, c, err, r)
  IN [w1 EXCEPT !.state.cooldownActive = FALSE, !.calls[c] = returned(@, err)]

processSignalQueue(w, t) ==
  LET cooldownPeriod == IF w.state.emergencyMode THEN EMERGENCY_COOLDOWN ELSE COOLDOWN_DURATION
      timeSinceLastCall == t - w.state.lastAPICall
  IN IF timeSinceLastCall < cooldownPeriod
       THEN [w EXCEPT !.state.cooldownActive = TRUE]
       ELSE LET sel == selectBestSignal(w.state.signalQueue)
            IN IF sel.signal = NoSignal
                 THEN w
                 ELSE makeIntelligentAPICall([w EXCEPT !.state.signalQueue = sel.queue],
                                             sel.signal, t)

\* enqueue that drops the arriving signal when the queue is over its bound.
enqueue_dropNewest(q, signal) ==
  LET pushed == Append(q, signal)
  IN IF Len(pushed) > MAX_QUEUE_SIZE THEN q ELSE pushed

\* push, then shift when the queue is over its bound.
enqueue(q, signal) ==
  LET pushed == Append(q, signal)
  IN IF Len(pushed) > MAX_QUEUE_SIZE THEN Tail(pushed) ELSE pushed

signalReceived(w, type, data, t) ==
  LET signal == [type |-> type, data |-> data, timestamp |-> t,
                 id |-> w.state.totalSignalsReceived + 1]
      w1 == [w EXCEPT !.state.totalSignalsReceived = @ + 1]
  IN IF w1.state.emergencyMode
       THEN w1
       ELSE processSignalQueue([w1 EXCEPT !.state.signalQueue = enqueue(@, signal)], t)

\* The timer callback that leaves emergency mode after one emergency cooldown.
cooldownMonitor_once(w, t) ==
  LET cooldownPeriod == IF w.state.emergencyMode THEN EMERGENCY_COOLDOWN ELSE COOLDOWN_DURATION
      timeSinceLastCall == t - w.state.lastAPICall
      w1 == IF w.state.cooldownActive /\ timeSinceLastCall >= cooldownPeriod
              THEN LET w0 == [w EXCEPT !.state.cooldownActive = FALSE]
                   IN IF Len(w0.state.signalQueue) > 0 THEN processSignalQueue(w0, t) ELSE w0
              ELSE w
  IN IF w1.state.emergencyMode /\ timeSinceLastCall > EMERGENCY_COOLDOWN
       THEN [w1 EXCEPT !.state.emergencyMode = FALSE]
       ELSE w1

\* The setInterval callback of startCooldownMonitoring, run at time t.
cooldownMonitor(w, t) ==
  LET cooldownPeriod == IF w.state.emergencyMode THEN EMERGENCY_COOLDOWN ELSE COOLDOWN_DURATION
      timeSinceLastCall == t - w.state.lastAPICall
      w1 == IF w.state.cooldownActive /\ timeSinceLastCall >= cooldownPeriod
              THEN LET w0 == [w EXCEPT !.state.cooldownActive = FALSE]
                   IN IF Len(w0.state.signalQueue) > 0 THEN processSignalQueue(w0, t) ELSE w0
              ELSE w
  IN IF w1.state.emergencyMode /\ timeSinceLastCall > EMERGENCY_COOLDOWN * 2
       THEN [w1 EXCEPT !.state.emergencyMode = FALSE]
       ELSE w1

\* Math.ceil(ms / 1000) on a non-negative number of milliseconds.
CeilSeconds(ms) == (ms + 999) \div 1000

\* Diagnostics that end the cooldown they report on.
getCoordinatorStats_clears(w, t) ==
  [world |-> [w EXCEPT !.state.cooldownActive = FALSE],
   stats |-> w.state @@ [apiEfficiencyRatio |-> << 0, 1 >>, cooldownTimeRemaining |-> 0]]

\* getCoordinatorStats at time t: the world it leaves and the object it returns.
\* The ratio is kept as the pair numerator, denominator.
getCoordinatorStats(w, t) ==
  LET cooldownPeriod == IF w.state.emergencyMode THEN EMERGENCY_COOLDOWN ELSE COOLDOWN_DURATION
      timeSinceLastCall == t - w.state.lastAPICall
      cooldownTimeRemaining == IF cooldownPeriod - timeSinceLastCall > 0
                                 THEN cooldownPeriod - timeSinceLastCall ELSE 0
  IN [world |-> w,
      stats |-> w.state @@
                [apiEfficiencyRatio |->
                   IF w.state.totalSignalsReceived > 0
                     THEN << w.state.totalAPICallsMade, w.state.totalSignalsReceived >>
                     ELSE << 0, 1 >>,
                 cooldownTimeRemaining |-> CeilSeconds(cooldownTimeRemaining)]]

\* The exported getApiHealthReport: the world it leaves and the report.
getApiHealthReport(w) ==
  [world |-> w, report |-> getHealthReport(w.keyStatuses) @@ [details |-> w.keyStatuses]]

\* --------------------------------------------------------- ContextManager
\* tryExternalWindowAnalysis up to its await: the context service calls
\* generateThoughtMessage itself, with a prompt made from the window title. The
\* invocation carries no signal of the coordinator.
tryExternalWindowAnalysis(w, windowTitle, t) ==
  LET c == Len(w.calls) + 1
      context == [timeOfDay |-> w.env.timeOfDay, city |-> "Ho Chi Minh City",
                  customPrompt |-> windowTitle]
  IN startAttempt([w EXCEPT !.calls = Append(@, [signal |-> NoSignal, pc |-> "start",
                                                   attemptsCount |-> 0, keyIndex |-> 0,
                                                   lastError |-> "", only429 |-> TRUE,
                                                   result |-> "pending",
                                                   bubbles |-> << >>,
                                                   lightweightContext |-> context,
                                                   prompt |-> generateThoughtMessage(context)])],
                  c, t)

\* tryExternalWindowAnalysis from the await on: on success it dispatches an
\* 'ai-message' window event, on failure it logs; the coordinator's state and
\* listeners are not involved.
windowAnalysisSettled(w, c, result) ==
  [w EXCEPT !.calls[c] = returned(@, result)]

\* ------------------------------------------- ContextManager: monitoring
\* A timer field holding 0 holds null. intervals is the set of intervals the
\* runtime will keep firing, each with the id setInterval returned for it;
\* weatherFetches counts the startWeatherMonitoring invocations suspended at
\* await this.updateWeatherContext().
ContextManagerInit ==
  [isMonitoring |-> FALSE, clipboardTimer |-> 0, windowTimer |-> 0,
   contextUpdateTimer |-> 0, weatherTimer |-> 0,
   intervals |-> {}, nextInterval |-> 1, weatherFetches |-> 0]

\* this[field] = setInterval(...)
setIntervalInto(cm, field) ==
  [cm EXCEPT ![field] = cm.nextInterval,
             !.intervals = @ \cup {[id |-> cm.nextInterval, field |-> field]},
             !.nextInterval = @ + 1]

\* if (this[field]) { clearInterval(this[field]); this[field] = null; }
clearIntervalOf(cm, field) ==
  IF cm[field] # 0
    THEN [cm EXCEPT !.intervals = {i \in @ : i.id # cm[field]}, ![field] = 0]
    ELSE cm

stopMonitoring(cm) ==
  clearIntervalOf(clearIntervalOf(clearIntervalOf(clearIntervalOf(
    [cm EXCEPT !.isMonitoring = FALSE],
    "clipboardTimer"), "windowTimer"), "contextUpdateTimer"), "weatherTimer")

startClipboardMonitoring(cm) == setIntervalInto(clearIntervalOf(cm, "clipboardTimer"), "clipboardTimer")

startWindowMonitoring(cm) == setIntervalInto(clearIntervalOf(cm, "windowTimer"), "windowTimer")

\* startWeatherMonitoring up to its await: the initial weather fetch is issued.
startWeatherMonitoring(cm) ==
  [clearIntervalOf(cm, "weatherTimer") EXCEPT !.weatherFetches = @ + 1]

\* startWeatherMonitoring from its await on: the 30-minute interval is set.
weatherMonitoringResumed(cm) ==
  [setIntervalInto(cm, "weatherTimer") EXCEPT !.weatherFetches = @ - 1]

\* startMonitoring: none of the three start functions is awaited, so it runs to
\* its end in one step and leaves the weather fetch pending.
startMonitoring(cm) ==
  LET cm0 == IF cm.isMonitoring THEN stopMonitoring(cm) ELSE cm
      cm1 == [cm0 EXCEPT !.isMonitoring = TRUE]
      cm2 == startWeatherMonitoring(startWindowMonitoring(startClipboardMonitoring(cm1)))
  IN setIntervalInto(cm2, "contextUpdateTimer")

\* ------------------------------------------------------ MainServiceManager
\* invocations holds, for each initializeCoreServices call in call order, the
\* await it is suspended at, "done" or "skipped".
MainServiceManagerInit ==
  [isInitialized |-> FALSE, serviceStatus |-> {}, invocations |-> << >>]

\* The services initializeCoreServices awaits, in order.
AwaitedServices == << "contextService", "workflowOptimizationService",
                      "focusManagementService", "knowledgeSynthesisService" >>

\* What an invocation marks ready once the awaited service at position k has
\* settled: that service and the ones verified without an await after it.
ReadyAfter(k) ==
  CASE k = 1 -> {"contextService", "timeTrackingService", "scenariosService"}
    [] k = 2 -> {"workflowOptimizationService"}
    [] k = 3 -> {"focusManagementService"}
    [] OTHER -> {"knowledgeSynthesisService", "interactionCoordinator", "phaserManager",
                 "petAIService"}

\* initializeCoreServices up to its first await: the guard, then
\* contextManager.startMonitoring().
initializeCoreServices(ms, cm) ==
  IF ms.isInitialized
    THEN [main |-> [ms EXCEPT !.invocations = Append(@, "skipped")], context |-> cm]
    ELSE [main |-> [ms EXCEPT !.invocations = Append(@, AwaitedServices[1])],
          context |-> startMonitoring(cm)]

\* Invocation i from the await of the service at position k on, to its next
\* await or to its end, where isInitialized is set.
initializationResumed(ms, i, k) ==
  IF k < Len(AwaitedServices)
    THEN [ms EXCEPT !.serviceStatus = @ \cup ReadyAfter(k),
                    !.invocations[i] = AwaitedServices[k + 1]]
    ELSE [ms EXCEPT !.serviceStatus = @ \cup ReadyAfter(k),
                    !.isInitialized = TRUE,
                    !.invocations[i] = "done"]

\* --------------------------------------------------- PhaserManagerSingleton
\* game is 0 for null, else the number of the Phaser.Game held. games are the
\* Phaser.Game instances created and not destroyed, created counts the ones
\* created since the last destroy(). invocations holds, per initialize call, the
\* pets it was given while it awaits setIgnoreCursorEvents, then how it ended.
PhaserManagerInit ==
  [game |-> 0, isInitialized |-> FALSE, spriteConfig |-> << >>, gameSpriteConfig |-> << >>,
   games |-> {}, nextGame |-> 1, created |-> 0, invocations |-> << >>]

\* The pets configurations initialize is called with.
PetConfigs == {<< >>, <<"pet1">>}

\* updateGameRegistry: the manager's registry, and the game's when one is held.
updateGameRegistry(pm, pets) ==
  [pm EXCEPT !.spriteConfig = pets,
             !.gameSpriteConfig = IF pm.game # 0 THEN pets ELSE @]

\* initialize up to its await; a missing container throws before any change.
PhaserManager_initialize(pm, containerFound, pets) ==
  IF pm.isInitialized /\ pm.game # 0
    THEN [updateGameRegistry(pm, pets) EXCEPT !.invocations = Append(@, "registry only")]
    ELSE IF ~containerFound
      THEN [pm EXCEPT !.invocations = Append(@, "threw")]
      ELSE [updateGameRegistry(pm, pets) EXCEPT !.invocations = Append(@, "awaiting")]

\* initialize after appWindow.setIgnoreCursorEvents resolved: new Phaser.Game,
\* whose preBoot copies the registry, then isInitialized.
gameCreated(pm, i) ==
  [pm EXCEPT !.game = pm.nextGame,
             !.games = @ \cup {pm.nextGame},
             !.nextGame = @ + 1,
             !.created = @ + 1,
             !.gameSpriteConfig = pm.spriteConfig,
             !.isInitialized = TRUE,
             !.invocations[i] = "created"]

\* destroy: the game held is destroyed, none other.
PhaserManager_destroy(pm) ==
  [pm EXCEPT !.games = @ \ {pm.game},
             !.game = 0,
             !.isInitialized = FALSE,
             !.created = 0]

\* ---------------------------------------------------- FocusManagementEngine
\* The engine after initialize(), with an active profile. currentSession is
\* NoSession for null; sessionTimer is 0 for null, else the handle of a timeout.
\* timeouts are the timeouts the runtime holds, each with the session that was
\* current when it was armed. sessions records each completed session with
\* the session its completing timeout was armed for (0 when no timeout
\* completed it).
NoSession == [id |-> 0, type |-> "none", interrupted |-> FALSE]

FocusManagerInit ==
  [activeProfile |-> TRUE, currentSession |-> NoSession, sessionTimer |-> 0,
   timeouts |-> {}, nextTimeout |-> 1, nextSession |-> 1, sessions |-> << >>,
   returned |-> TRUE]

SessionTypes == {"focus", "short_break", "long_break"}

\* this.sessionTimer = setTimeout(() => this.completeSession(), ...).
armSessionTimer(fm) ==
  [fm EXCEPT !.sessionTimer = fm.nextTimeout,
             !.timeouts = @ \cup {[handle |-> fm.nextTimeout,
                                   session |-> fm.currentSession.id]},
             !.nextTimeout = @ + 1]

\* completeSession; armedFor is the session of the timeout that calls it, 0 when
\* skipSession or resumeSession calls it.
completeSession(fm, armedFor) ==
  IF fm.currentSession = NoSession
    THEN fm
    ELSE [fm EXCEPT !.timeouts = {timeout \in @ : timeout.handle # fm.sessionTimer},
                    !.sessionTimer = 0,
                    !.sessions = Append(@, [id |-> fm.currentSession.id,
                                            type |-> fm.currentSession.type,
                                            interrupted |-> fm.currentSession.interrupted,
                                            armedFor |-> armedFor]),
                    !.currentSession = NoSession]

\* startFocusSession and startBreak: they differ in the type of the session.
startSession(fm, type) ==
  IF fm.currentSession # NoSession \/ ~fm.activeProfile
    THEN [fm EXCEPT !.returned = FALSE]
    ELSE armSessionTimer([fm EXCEPT !.currentSession = [id |-> fm.nextSession, type |-> type,
                                                        interrupted |-> FALSE],
                                    !.nextSession = @ + 1,
                                    !.returned = TRUE])

pauseSession(fm) ==
  IF fm.currentSession = NoSession
    THEN [fm EXCEPT !.returned = FALSE]
    ELSE [fm EXCEPT !.timeouts = {timeout \in @ : timeout.handle # fm.sessionTimer},
                    !.sessionTimer = 0,
                    !.returned = TRUE]

\* expired: the session's duration has passed since its startTime.
resumeSession(fm, expired) ==
  IF fm.currentSession = NoSession
    THEN [fm EXCEPT !.returned = FALSE]
    ELSE IF expired
      THEN [completeSession(fm, 0) EXCEPT !.returned = TRUE]
      ELSE [armSessionTimer(fm) EXCEPT !.returned = TRUE]

skipSession(fm) ==
  IF fm.currentSession = NoSession
    THEN [fm EXCEPT !.returned = FALSE]
    ELSE [completeSession([fm EXCEPT !.currentSession.interrupted = TRUE], 0)
            EXCEPT !.returned = TRUE]

\* The callback of a timeout the runtime holds.
sessionTimeout(fm, timeout) ==
  completeSession([fm EXCEPT !.timeouts = @ \ {timeout}], timeout.session)

\* The catch block under a loop condition written attemptsCount <= maxAttempts.
attemptFailed_oneMore(w, c, err, t, r) ==
  LET call == w.calls[c]
      w1 == [w EXCEPT !.calls[c].lastError = err,
                      !.calls[c].only429 = @ /\ err = "HTTP 429",
                      !.keyStatuses = recordFailure(@, call.keyIndex, t)]
  IN IF Includes429(err) /\ call.attemptsCount <= maxAttempts
       THEN startAttempt(w1, c, t)
       ELSE IF call.attemptsCount <= maxAttempts /\ ~Includes429(err)
              THEN [w1 EXCEPT !.calls[c].pc = "delay"]
              ELSE callFailed(w1, c, err, r)

\* The catch block recording the failure against the key the pool handed out
\* last, to whichever loop, instead of the key of its own attempt.
attemptFailed_sharedIndex(w, c, err, t, r) ==
  LET call == w.calls[c]
      w1 == [w EXCEPT !.calls[c].lastError = err,
                      !.calls[c].only429 = @ /\ err = "HTTP 429",
                      !.keyStatuses = recordFailure(@, (w.currentIndex + NumKeys - 1) % NumKeys, t)]
  IN IF Includes429(err) /\ call.attemptsCount < maxAttempts
       THEN startAttempt(w1, c, t)
       ELSE IF call.attemptsCount < maxAttempts /\ ~Includes429(err)
              THEN [w1 EXCEPT !.calls[c].pc = "delay"]
              ELSE IF call.signal = NoSignal
                     THEN windowAnalysisSettled(w1, c, err)
                     ELSE callFailed(w1, c, err, r)

\* The catch block of the retry loop and what follows it without an await.
attemptFailed(w, c, err, t, r) ==
  LET call == w.calls[c]
      w1 == [w EXCEPT !.calls[c].lastError = err,
                      !.calls[c].only429 = @ /\ err = "HTTP 429",
                      !.keyStatuses = recordFailure(@, call.keyIndex, t)]
  IN IF Includes429(err) /\ call.attemptsCount < maxAttempts
       THEN startAttempt(w1, c, t)
       ELSE IF call.attemptsCount < maxAttempts /\ ~Includes429(err)
              THEN [w1 EXCEPT !.calls[c].pc = "delay"]
              ELSE IF call.signal = NoSignal
                     THEN windowAnalysisSettled(w1, c, err)
                     ELSE callFailed(w1, c, err, r)

\* A success path that counts a plain-text body against the key.
attemptSucceeded_plainCounted(w, c, outcome, text) ==
  callSucceeded([w EXCEPT !.keyStatuses =
                            IF outcome = "plain"
                              THEN recordFailure(@, w.calls[c].keyIndex, 0)
                              ELSE recordSuccess(@, w.calls[c].keyIndex)],
                c, outcome, text)

\* The try block of the retry loop from the settled fetch on, when the answer
\* carries a text: structured when the text holds an {icon, message} object,
\* plain otherwise.
attemptSucceeded(w, c, outcome, text) ==
  LET w1 == [w EXCEPT !.keyStatuses = recordSuccess(@, w.calls[c].keyIndex)]
  IN IF w.calls[c].signal = NoSignal
       THEN windowAnalysisSettled(w1, c, "success")
       ELSE callSucceeded(w1, c, outcome, text)

\* ------------------------------------------------------------------ actions
\* The invocations of new that had not already returned in old.
RECURSIVE StillOfInterest(_, _, _)
StillOfInterest(old, new, i) ==
  IF i > Len(new)
    THEN << >>
    ELSE IF i <= Len(old) /\ old[i].pc = "done"
           THEN StillOfInterest(old, new, i + 1)
           ELSE << new[i] >> \o StillOfInterest(old, new, i + 1)

Commit(w) ==
  /\ state' = w.state
  /\ keyStatuses' = w.keyStatuses
  /\ currentIndex' = w.currentIndex
  /\ calls' = StillOfInterest(calls, w.calls, 1)
  /\ lastScan' = w.lastScan
  /\ thoughtBubbleListeners' = w.thoughtBubbleListeners
  /\ notified' = w.notified
  /\ UNCHANGED serviceVars

Init ==
  /\ now = StartTime
  /\ state = CoordinatorInit
  /\ keyStatuses = ApiKeyManagerInit
  /\ currentIndex = 0
  /\ calls = << >>
  /\ lastScan = NoScan
  /\ thoughtBubbleListeners = << >>
  /\ notified = NoNotification
  /\ contextManager = ContextManagerInit
  /\ mainServiceManager = MainServiceManagerInit
  /\ phaserManager = PhaserManagerInit
  /\ focusManager = FocusManagerInit

AiTexts == {"hello"}
\* Math.floor(Math.random() * 5) + 1 ranges over 1 .. 5; the ends are explored.
RandomDraws == {1, Len(fallbackMessages)}

\* A collaborator calls signalReceived(type, data, source).
Signal(type) ==
  /\ Commit(signalReceived(World, type, NoData, now))
  /\ UNCHANGED now

\* The same with a payload, at some time of day, with some city in the settings.
SignalWith(type, data, env) ==
  /\ Commit(signalReceived([World EXCEPT !.env = env], type, data, now))
  /\ UNCHANGED now

\* The 30-second timer fires.
Tick ==
  /\ Commit(cooldownMonitor(World, now))
  /\ UNCHANGED now

\* Time passes.
Advance ==
  /\ now' = now + TIME_STEP
  /\ Commit(World)

\* The pending attempt of cycle c answers with a usable body.
SettleOk(c) ==
  /\ calls[c].pc = "fetch"
  /\ \E outcome \in SuccessOutcomes, text \in AiTexts :
       Commit(attemptSucceeded(World, c, outcome, text))
  /\ UNCHANGED now

\* The pending attempt of cycle c fails with one of errs.
SettleFail(c, errs) ==
  /\ calls[c].pc = "fetch"
  /\ \E err \in errs, r \in RandomDraws :
       Commit(attemptFailed(World, c, err, now, r))
  /\ UNCHANGED now

\* The 800 ms retry delay of cycle c is over.
DelayElapsed(c) ==
  /\ calls[c].pc = "delay"
  /\ Commit(startAttempt(World, c, now))
  /\ UNCHANGED now

\* A collaborator registers a listener.
AddListener(listener) ==
  /\ Len(thoughtBubbleListeners) < MaxListeners
  /\ Commit(addThoughtBubbleListener(World, listener))
  /\ UNCHANGED now

\* A collaborator takes a listener back.
RemoveListener(listener) ==
  /\ \E i \in 1 .. Len(thoughtBubbleListeners) : thoughtBubbleListeners[i] = listener
  /\ Commit(removeThoughtBubbleListener(World, listener))
  /\ UNCHANGED now

\* A collaborator reads the coordinator's statistics.
CoordinatorStats ==
  /\ Commit(getCoordinatorStats(World, now).world)
  /\ UNCHANGED now

\* A collaborator reads the key pool's health report.
ApiHealthReport ==
  /\ Commit(getApiHealthReport(World).world)
  /\ UNCHANGED now

\* The context service sees a development window and asks for a suggestion.
WindowAnalysis ==
  /\ Cardinality({c \in 1 .. Len(calls) : calls[c].signal = NoSignal /\ calls[c].pc # "done"})
       < MaxWindowAnalyses
  /\ Commit(tryExternalWindowAnalysis(World, "main.ts - editor", now))
  /\ UNCHANGED now

\* A caller starts the context monitoring.
StartMonitoring ==
  /\ contextManager.nextInterval + 4 <= MaxIntervals + 1
  /\ contextManager' = startMonitoring(contextManager)
  /\ UNCHANGED << coordinatorVars, mainServiceManager, phaserManager, focusManager >>

\* A caller stops the context monitoring.
StopMonitoring ==
  /\ contextManager' = stopMonitoring(contextManager)
  /\ UNCHANGED << coordinatorVars, mainServiceManager, phaserManager, focusManager >>

\* The weather fetch a startWeatherMonitoring awaits has settled.
WeatherFetched ==
  /\ contextManager.weatherFetches > 0
  /\ contextManager' = weatherMonitoringResumed(contextManager)
  /\ UNCHANGED << coordinatorVars, mainServiceManager, phaserManager, focusManager >>

\* The App effect, or any other caller, calls initializeCoreServices().
InitializeCoreServices ==
  /\ Len(mainServiceManager.invocations) < MaxInitializations
  /\ LET r == initializeCoreServices(mainServiceManager, contextManager)
     IN /\ mainServiceManager' = r.main
        /\ contextManager' = r.context
  /\ UNCHANGED << coordinatorVars, phaserManager, focusManager >>

\* The service invocation i awaits has settled.
ServiceSettled(i) ==
  /\ \E k \in 1 .. Len(AwaitedServices) :
       /\ mainServiceManager.invocations[i] = AwaitedServices[k]
       /\ mainServiceManager' = initializationResumed(mainServiceManager, i, k)
  /\ UNCHANGED << coordinatorVars, contextManager, phaserManager, focusManager >>

\* A component calls initializePhaserGame(containerId, pets).
InitializePhaserGame(containerFound, pets) ==
  /\ Len(phaserManager.invocations) < MaxGameInitializations
  /\ phaserManager' = PhaserManager_initialize(phaserManager, containerFound, pets)
  /\ UNCHANGED << coordinatorVars, contextManager, mainServiceManager, focusManager >>

\* appWindow.setIgnoreCursorEvents(true) of invocation i resolves.
CursorEventsIgnored(i) ==
  /\ phaserManager.invocations[i] = "awaiting"
  /\ phaserManager' = gameCreated(phaserManager, i)
  /\ UNCHANGED << coordinatorVars, contextManager, mainServiceManager, focusManager >>

\* appWindow.setIgnoreCursorEvents(true) of invocation i rejects: initialize throws.
CursorEventsRejected(i) ==
  /\ phaserManager.invocations[i] = "awaiting"
  /\ phaserManager' = [phaserManager EXCEPT !.invocations[i] = "threw"]
  /\ UNCHANGED << coordinatorVars, contextManager, mainServiceManager, focusManager >>

\* destroyPhaserGame().
DestroyPhaserGame ==
  /\ phaserManager' = PhaserManager_destroy(phaserManager)
  /\ UNCHANGED << coordinatorVars, contextManager, mainServiceManager, focusManager >>

\* The sessions and timeouts explored.
FocusBounds(fm) ==
  /\ fm.nextSession <= MaxSessions + 1
  /\ fm.nextTimeout <= MaxTimeouts + 1

StartFocusSession ==
  /\ FocusBounds(startSession(focusManager, "focus"))
  /\ focusManager' = startSession(focusManager, "focus")
  /\ UNCHANGED << coordinatorVars, contextManager, mainServiceManager, phaserManager >>

StartBreak(type) ==
  /\ FocusBounds(startSession(focusManager, type))
  /\ focusManager' = startSession(focusManager, type)
  /\ UNCHANGED << coordinatorVars, contextManager, mainServiceManager, phaserManager >>

PauseSession ==
  /\ focusManager' = pauseSession(focusManager)
  /\ UNCHANGED << coordinatorVars, contextManager, mainServiceManager, phaserManager >>

ResumeSession(expired) ==
  /\ FocusBounds(resumeSession(focusManager, expired))
  /\ focusManager' = resumeSession(focusManager, expired)
  /\ UNCHANGED << coordinatorVars, contextManager, mainServiceManager, phaserManager >>

SkipSession ==
  /\ focusManager' = skipSession(focusManager)
  /\ UNCHANGED << coordinatorVars, contextManager, mainServiceManager, phaserManager >>

\* A timeout the runtime holds comes due.
SessionTimeout(timeout) ==
  /\ timeout \in focusManager.timeouts
  /\ focusManager' = sessionTimeout(focusManager, timeout)
  /\ UNCHANGED << coordinatorVars, contextManager, mainServiceManager, phaserManager >>

WithinBounds(maxSignals, maxCalls, maxSteps) ==
  /\ now' <= StartTime + maxSteps * TIME_STEP
  /\ state'.totalSignalsReceived <= maxSignals
  /\ state'.totalAPICallsMade <= maxCalls

\* The coordinator under signals of a priority and a non-priority type, with
\* attempts that succeed, are rate limited or fail otherwise.
Next ==
  \/ \E type \in {"window_change", "idle_detected"} :
       Signal(type) /\ WithinBounds(MaxSignals, MaxCalls, MaxSteps)
  \/ Tick /\ WithinBounds(MaxSignals, MaxCalls, MaxSteps)
  \/ Advance /\ WithinBounds(MaxSignals, MaxCalls, MaxSteps)
  \/ \E c \in 1 .. Len(calls) : SettleOk(c)
  \/ \E c \in 1 .. Len(calls) : SettleFail(c, {"HTTP 429", "HTTP 500"})
  \/ \E c \in 1 .. Len(calls) : DelayElapsed(c)

Spec == Init /\ [][Next]_vars

\* One cycle under every class of failure.
NextCycle ==
  \/ \E type \in {"clipboard_update", "activity_spike"} :
       Signal(type) /\ WithinBounds(MaxCycleSignals, 1, 1)
  \/ Tick /\ WithinBounds(MaxCycleSignals, 1, 1)
  \/ Advance /\ WithinBounds(MaxCycleSignals, 1, 1)
  \/ \E c \in 1 .. Len(calls) : SettleOk(c)
  \/ \E c \in 1 .. Len(calls) : SettleFail(c, FailureOutcomes)
  \/ \E c \in 1 .. Len(calls) : DelayElapsed(c)

SpecCycle == Init /\ [][NextCycle]_vars

\* One cycle in which every fetch settles and every retry delay ends.
SpecCycleFair ==
  /\ SpecCycle
  /\ WF_vars(\E c \in 1 .. Len(calls) : SettleOk(c) \/ SettleFail(c, FailureOutcomes))
  /\ WF_vars(\E c \in 1 .. Len(calls) : DelayElapsed(c))

\* The queue under a burst of more signals than it holds; the clock moves on
\* once the queue is full, so that a selection finds it full.
NextQueue ==
  \/ \E type \in {"window_change", "idle_detected"} :
       Signal(type) /\ WithinBounds(MaxQueueSignals, MaxCalls, MaxSteps)
  \/ Tick /\ WithinBounds(MaxQueueSignals, MaxCalls, MaxSteps)
  \/ Len(state.signalQueue) = MAX_QUEUE_SIZE /\ Advance
        /\ WithinBounds(MaxQueueSignals, MaxCalls, MaxSteps)
  \/ \E c \in 1 .. Len(calls) : SettleOk(c)

SpecQueue == Init /\ [][NextQueue]_vars

\* Emergency mode over the time it lasts: the timer keeps firing and time keeps
\* passing.
NextEmergency ==
  \/ Signal("activity_spike") /\ WithinBounds(MaxCycleSignals, 1, MaxEmergencySteps)
  \/ Tick /\ WithinBounds(MaxCycleSignals, 1, MaxEmergencySteps)
  \/ Advance /\ WithinBounds(MaxCycleSignals, 1, MaxEmergencySteps)
  \/ \E c \in 1 .. Len(calls) : SettleOk(c)
  \/ \E c \in 1 .. Len(calls) : SettleFail(c, {"HTTP 429", "HTTP 500"})
  \/ \E c \in 1 .. Len(calls) : DelayElapsed(c)

\* The timer fires every 30 seconds, in emergency mode as at any other time,
\* and time passes up to the end of the explored time.
SpecEmergency ==
  /\ Init /\ [][NextEmergency]_vars
  /\ WF_vars(state.emergencyMode /\ Tick)
  /\ WF_vars(now < StartTime + MaxEmergencySteps * TIME_STEP /\ Advance)

\* signalReceived in every state of the coordinator: queue empty to full, call
\* in flight, cooldown running, emergency mode.
NextSignal ==
  \/ Signal("window_change") /\ WithinBounds(MaxQueueSignals, MaxCalls, MaxSteps)
  \/ Tick /\ WithinBounds(MaxQueueSignals, MaxCalls, MaxSteps)
  \/ Len(state.signalQueue) = MAX_QUEUE_SIZE /\ Advance
        /\ WithinBounds(MaxQueueSignals, MaxCalls, MaxSteps)
  \/ \E c \in 1 .. Len(calls) : SettleOk(c)
  \/ \E c \in 1 .. Len(calls) : SettleFail(c, {"HTTP 429"})

SpecSignal == Init /\ [][NextSignal]_vars

\* The first call under every signal type, payload, time of day and city.
NextPrompt ==
  \/ \E type \in SignalTypes, data \in Payloads, env \in Envs :
       SignalWith(type, data, env) /\ WithinBounds(1, 1, 0)
  \/ \E c \in 1 .. Len(calls) : SettleOk(c)

SpecPrompt == Init /\ [][NextPrompt]_vars

\* One cycle under listeners that come and go, some of which throw.
NextListeners ==
  \/ \E listener \in ListenerFunctions : AddListener(listener)
  \/ \E listener \in ListenerFunctions : RemoveListener(listener)
  \/ Signal("clipboard_update") /\ WithinBounds(1, 1, 0)
  \/ \E c \in 1 .. Len(calls) : SettleOk(c)
  \/ \E c \in 1 .. Len(calls) : SettleFail(c, {"HTTP 429"})

SpecListeners == Init /\ [][NextListeners]_vars

\* Listeners that take themselves back while they are notified, among others.
NextUnsubscribe ==
  \/ \E listener \in Listeners : AddListener(listener)
  \/ Signal("clipboard_update") /\ WithinBounds(1, 1, 0)
  \/ \E c \in 1 .. Len(calls) : SettleOk(c)
  \/ \E c \in 1 .. Len(calls) : SettleFail(c, {"HTTP 429"})

SpecUnsubscribe == Init /\ [][NextUnsubscribe]_vars

\* The key pool under the retry loops of consecutive cycles.
NextPool ==
  \/ Signal("weather_update") /\ WithinBounds(MaxPoolSignals, MaxCalls, MaxPoolSteps)
  \/ Tick /\ WithinBounds(MaxPoolSignals, MaxCalls, MaxPoolSteps)
  \/ Advance /\ WithinBounds(MaxPoolSignals, MaxCalls, MaxPoolSteps)
  \/ \E c \in 1 .. Len(calls) : SettleOk(c)
  \/ \E c \in 1 .. Len(calls) : SettleFail(c, {"HTTP 429", "HTTP 500"})
  \/ \E c \in 1 .. Len(calls) : DelayElapsed(c)

SpecPool == Init /\ [][NextPool]_vars

\* The coordinator and the key pool under collaborators that read the
\* diagnostics at any moment.
NextDiagnostics ==
  \/ Signal("weather_update") /\ WithinBounds(MaxPoolSignals, MaxCalls, MaxPoolSteps)
  \/ Tick /\ WithinBounds(MaxPoolSignals, MaxCalls, MaxPoolSteps)
  \/ Advance /\ WithinBounds(MaxPoolSignals, MaxCalls, MaxPoolSteps)
  \/ \E c \in 1 .. Len(calls) : SettleOk(c)
  \/ \E c \in 1 .. Len(calls) : SettleFail(c, {"HTTP 429", "HTTP 500"})
  \/ \E c \in 1 .. Len(calls) : DelayElapsed(c)
  \/ CoordinatorStats
  \/ ApiHealthReport

SpecDiagnostics == Init /\ [][NextDiagnostics]_vars

\* The coordinator left to its timer: few signals, then only the 30-second
\* callback, the passing of time and the settling of what is in flight.
NextTimer ==
  \/ Signal("window_change") /\ WithinBounds(MaxCycleSignals, MaxCalls, MaxSteps)
  \/ Tick /\ WithinBounds(MaxCycleSignals, MaxCalls, MaxSteps)
  \/ Advance /\ WithinBounds(MaxCycleSignals, MaxCalls, MaxSteps)
  \/ \E c \in 1 .. Len(calls) : SettleOk(c)
  \/ \E c \in 1 .. Len(calls) : SettleFail(c, {"HTTP 429", "HTTP 500"})
  \/ \E c \in 1 .. Len(calls) : DelayElapsed(c)

\* The timer keeps firing while signals wait, every fetch settles, every retry
\* delay ends and time passes up to the end of the explored time.
SpecTimer ==
  /\ Init /\ [][NextTimer]_vars
  /\ WF_vars(Len(state.signalQueue) > 0 /\ Tick)
  /\ WF_vars(\E c \in 1 .. Len(calls) : SettleOk(c) \/ SettleFail(c, {"HTTP 429", "HTTP 500"}))
  /\ WF_vars(\E c \in 1 .. Len(calls) : DelayElapsed(c))
  /\ WF_vars(now < StartTime + MaxSteps * TIME_STEP /\ Advance)

\* The whole process: the coordinator and the context service share the retry
\* loop and the key pool.
NextProcess ==
  \/ Signal("window_change") /\ WithinBounds(MaxCycleSignals, 1, 1)
  \/ WindowAnalysis
  \/ Tick /\ WithinBounds(MaxCycleSignals, 1, 1)
  \/ Advance /\ WithinBounds(MaxCycleSignals, 1, 1)
  \/ \E c \in 1 .. Len(calls) : SettleOk(c)
  \/ \E c \in 1 .. Len(calls) : SettleFail(c, {"HTTP 429", "HTTP 500"})
  \/ \E c \in 1 .. Len(calls) : DelayElapsed(c)

SpecProcess == Init /\ [][NextProcess]_vars

\* The context service started and stopped at any moment.
NextMonitoring ==
  \/ StartMonitoring
  \/ StopMonitoring
  \/ WeatherFetched

SpecMonitoring == Init /\ [][NextMonitoring]_vars

\* The start of the application: initializeCoreServices called again at any
\* moment, before or after an earlier call has finished.
NextMain ==
  \/ InitializeCoreServices
  \/ \E i \in 1 .. Len(mainServiceManager.invocations) : ServiceSettled(i)
  \/ WeatherFetched

SpecMain == Init /\ [][NextMain]_vars

\* The life of the Phaser game: initialize and destroy called at any moment.
NextPhaser ==
  \/ \E containerFound \in BOOLEAN, pets \in PetConfigs :
       InitializePhaserGame(containerFound, pets)
  \/ \E i \in 1 .. Len(phaserManager.invocations) : CursorEventsIgnored(i)
  \/ \E i \in 1 .. Len(phaserManager.invocations) : CursorEventsRejected(i)
  \/ DestroyPhaserGame

SpecPhaser == Init /\ [][NextPhaser]_vars

\* The Pomodoro timer under every order of its five operations.
NextFocus ==
  \/ StartFocusSession
  \/ \E type \in {"short_break", "long_break"} : StartBreak(type)
  \/ PauseSession
  \/ \E expired \in BOOLEAN : ResumeSession(expired)
  \/ SkipSession
  \/ \E timeout \in focusManager.timeouts : SessionTimeout(timeout)

SpecFocus == Init /\ [][NextFocus]_vars

\* ------------------------------------------------------------------ claims
InFlight == {c \in 1 .. Len(calls) : calls[c].pc # "done"}
Returned == {c \in 1 .. Len(calls) : calls[c].pc = "done"}

\* C1: at most one generate-call started by the coordinator is in flight at any
\* time, however long a call takes to settle.
C1_SingleFlight == Cardinality(InFlight) <= 1

\* C2: every cycle that started a call ends by delivering exactly one
\* OutcomeMessage to the listeners, whatever the class of the terminal failure.
C2_EveryCycleDelivers ==
  \A c \in Returned : Len(calls[c].bubbles) = 1

\* C3: a cycle that exhausts its attempt budget with every attempt answering
\* HTTP 429 notifies the listeners exactly once, with a non-empty offline
\* fallback message, and leaves emergencyMode true.
C3_RateLimitedExhaustion ==
  \A c \in Returned :
    (calls[c].result # "success" /\ calls[c].only429) =>
      /\ Len(calls[c].bubbles) = 1
      /\ calls[c].bubbles[1].format = "offline_fallback"
      /\ calls[c].bubbles[1].message # ""
      /\ state.emergencyMode

C3_Witness ==
  \E c \in Returned :
    /\ calls[c].result = "HTTP 429"
    /\ calls[c].only429
    /\ Len(calls[c].bubbles) = 1
    /\ state.emergencyMode

\* What a step did, read from the state before and after it.
Items(q) == {q[i] : i \in 1 .. Len(q)}
SignalStep == state'.totalSignalsReceived = state.totalSignalsReceived + 1
StartStep == state'.totalAPICallsMade = state.totalAPICallsMade + 1
StartedSignal == calls'[Len(calls')].signal
NewSignal ==
  CHOOSE s \in Items(state'.signalQueue) \cup (IF StartStep THEN {StartedSignal} ELSE {}) :
    s.id = state'.totalSignalsReceived
\* The queue as selection finds it: with the arriving signal pushed, if any.
QueueBeforeSelection ==
  IF SignalStep
    THEN LET pushed == Append(state.signalQueue, NewSignal)
         IN IF Len(pushed) > MAX_QUEUE_SIZE THEN Tail(pushed) ELSE pushed
    ELSE state.signalQueue
Without(q, signal) == SelectSeq(q, LAMBDA s : s.id # signal.id)

\* C4: between the starts of two consecutive calls at least the applicable
\* cooldown elapses (4 minutes, 10 minutes while emergencyMode is on), a step
\* starts at most one call, and the signals not selected stay queued.
C4_OneCallPerWindow ==
  [][/\ state'.totalAPICallsMade <= state.totalAPICallsMade + 1
     /\ StartStep =>
          /\ now' - state.lastAPICall >=
               (IF state.emergencyMode THEN EMERGENCY_COOLDOWN ELSE COOLDOWN_DURATION)
          /\ \A s \in Items(QueueBeforeSelection) :
               s.id # StartedSignal.id => s \in Items(state'.signalQueue)]_vars

\* The part of C4 about time alone.
CooldownBetweenStarts ==
  [][/\ state'.totalAPICallsMade <= state.totalAPICallsMade + 1
     /\ StartStep =>
          now' - state.lastAPICall >=
            (IF state.emergencyMode THEN EMERGENCY_COOLDOWN ELSE COOLDOWN_DURATION)]_vars

\* C5: the queue never holds more than MAX_QUEUE_SIZE signals, and a signal that
\* arrives at a full queue evicts the oldest queued signal, never itself.
C5_BoundedDropOldest ==
  /\ [](Len(state.signalQueue) <= MAX_QUEUE_SIZE)
  /\ [][(SignalStep /\ ~state.emergencyMode /\ Len(state.signalQueue) = MAX_QUEUE_SIZE) =>
          /\ Head(state.signalQueue) \notin Items(state'.signalQueue)
          /\ \/ NewSignal \in Items(state'.signalQueue)
             \/ StartStep /\ StartedSignal = NewSignal
          /\ Len(state'.signalQueue) >= MAX_QUEUE_SIZE - 1
          /\ StartStep \/ state'.signalQueue = Append(Tail(state.signalQueue), NewSignal)]_vars

C5_Witness ==
  /\ Len(state.signalQueue) = MAX_QUEUE_SIZE
  /\ state.signalQueue[1].id = 3
  /\ state.signalQueue[MAX_QUEUE_SIZE].id = MAX_QUEUE_SIZE + 2

\* C6: every signal passed to signal() is appended to the queue, in every
\* coordinator state, and a queued signal leaves the queue only by being
\* selected for a call or by overflow eviction.
C6_EverySignalQueued ==
  [][/\ SignalStep =>
          \/ \E i \in 1 .. Len(state'.signalQueue) :
               state'.signalQueue[i].id = state'.totalSignalsReceived
          \/ StartStep /\ StartedSignal.id = state'.totalSignalsReceived
     /\ \A s \in Items(state.signalQueue) :
          \/ s \in Items(state'.signalQueue)
          \/ StartStep /\ StartedSignal = s
          \/ SignalStep /\ Len(state.signalQueue) = MAX_QUEUE_SIZE /\ s = Head(state.signalQueue)]_vars

\* C7: selection on a non-empty queue returns the earliest-queued signal of type
\* idle_detected or activity_spike if there is one, otherwise the most recently
\* queued signal.
C7_SelectionPolicy ==
  [][StartStep =>
       LET q == QueueBeforeSelection
           urgent == {i \in 1 .. Len(q) : q[i].type \in {"idle_detected", "activity_spike"}}
       IN StartedSignal = (IF urgent # {} THEN q[Min(urgent)] ELSE q[Len(q)])]_vars

C7_Witness ==
  \E c \in InFlight :
    /\ calls[c].attemptsCount = 1
    /\ state.lastAPICall = now
    /\ calls[c].signal.type \in {"idle_detected", "activity_spike"}
    /\ \E i \in 1 .. Len(state.signalQueue) :
         /\ state.signalQueue[i].id < calls[c].signal.id
         /\ state.signalQueue[i].type = "window_change"

\* C8: selection removes from the queue exactly the signal it returns and leaves
\* every other queued signal in place, in order, also when signals share a timestamp.
C8_RemovesWhatItReturns ==
  [][StartStep => state'.signalQueue = Without(QueueBeforeSelection, StartedSignal)]_vars

\* C9: in every reachable state of the pool getNextApiKey returns after
\* examining at most N credentials, with an index in 0 .. N-1: both the calls
\* the retry loops made and the call that could be made now.
C9_ScanBoundedInRange ==
  /\ lastScan.examined <= NumKeys
  /\ lastScan.index \in KeyIndexes
  /\ LET r == getNextApiKey(keyStatuses, currentIndex, now)
     IN /\ r.examined >= 1
        /\ r.examined <= NumKeys
        /\ r.index \in KeyIndexes
        /\ r.currentIndex \in KeyIndexes

\* A scan that had to pass every unhealthy key before it found the last one usable.
C9_Witness ==
  /\ lastScan.examined = NumKeys
  /\ ~lastScan.reset
  /\ \E i \in KeyIndexes : ~keyStatuses[i].isHealthy

\* C10: when every credential is unhealthy and none has been failure-free for
\* more than HEALTH_CHECK_COOLDOWN, getNextApiKey resets all credentials
\* (healthy, failCount 0, lastFailTime 0) and returns the first one, and the
\* health report then counts all N healthy.
C10_ForcedReset ==
  /\ lastScan.allDown =>
       /\ lastScan.reset
       /\ lastScan.index = 0
       /\ \A i \in KeyIndexes :
            keyStatuses[i] = [failCount |-> 0, lastFailTime |-> 0, isHealthy |-> TRUE]
       /\ getHealthReport(keyStatuses).healthy = NumKeys
  /\ AllDown(keyStatuses, now) =>
       LET r == getNextApiKey(keyStatuses, currentIndex, now)
       IN /\ r.index = 0
          /\ \A i \in KeyIndexes :
               r.keyStatuses[i] = [failCount |-> 0, lastFailTime |-> 0, isHealthy |-> TRUE]
          /\ getHealthReport(r.keyStatuses).healthy = NumKeys

C10_Witness == lastScan.allDown /\ lastScan.reset

\* C11: a key with no failures on record is still healthy after one and after
\* two recordFailure calls and unhealthy after the third; one recordSuccess on a
\* key, whatever its record, leaves it healthy with failCount 0.
C11_ThreeFailuresThenSuccess ==
  \A i \in KeyIndexes :
    /\ keyStatuses[i].failCount = 0 =>
         LET f1 == recordFailure(keyStatuses, i, now)
             f2 == recordFailure(f1, i, now)
             f3 == recordFailure(f2, i, now)
             ok == recordSuccess(f3, i)
         IN /\ keyStatuses[i].isHealthy
            /\ f1[i].isHealthy /\ f1[i].failCount = 1
            /\ f2[i].isHealthy /\ f2[i].failCount = 2
            /\ ~f3[i].isHealthy /\ f3[i].failCount = MAX_FAIL_COUNT
            /\ ok[i].isHealthy /\ ok[i].failCount = 0
    /\ keyStatuses[i].failCount \in 1 .. (MAX_FAIL_COUNT - 1) => keyStatuses[i].isHealthy
    /\ keyStatuses[i].failCount = MAX_FAIL_COUNT => ~keyStatuses[i].isHealthy
    /\ LET ok == recordSuccess(keyStatuses, i)
       IN ok[i].isHealthy /\ ok[i].failCount = 0

\* The retry loops failed MAX_FAIL_COUNT times on one key, and a key with fewer
\* failures is on record beside it.
C11_Witness ==
  \E i, j \in KeyIndexes :
    /\ keyStatuses[i].failCount = MAX_FAIL_COUNT /\ ~keyStatuses[i].isHealthy
    /\ keyStatuses[j].failCount = MAX_FAIL_COUNT - 1 /\ keyStatuses[j].isHealthy

\* Where the invocation at position c is found after a step: the invocations
\* that had returned before it are forgotten.
NewIndex(c) == c - Cardinality({k \in 1 .. (c - 1) : calls[k].pc = "done"})

\* C12: one invocation of the retry loop issues at most min(2N, 10) attempts,
\* one at a time; it returns at the first successful attempt; on exhaustion it
\* returns a failure carrying the error of its last attempt; and when every
\* attempt settles it terminates.
C12_RetryLoopBounded ==
  /\ [](\A c \in 1 .. Len(calls) :
          /\ calls[c].attemptsCount <= MinOf(2 * NumKeys, 10)
          /\ calls[c].result = "success" => calls[c].pc = "done")
  /\ [][\A c \in InFlight :
          LET d == calls'[NewIndex(c)]
          IN /\ d.attemptsCount > calls[c].attemptsCount =>
                  /\ calls[c].attemptsCount < MinOf(2 * NumKeys, 10)
                  /\ d.attemptsCount = calls[c].attemptsCount + 1
             /\ (d.pc = "done" /\ d.result # "success") =>
                  /\ calls[c].pc = "fetch"
                  /\ calls[c].attemptsCount = MinOf(2 * NumKeys, 10)
                  /\ d.result \in FailureOutcomes
                  /\ d.result = d.lastError]_vars
  /\ (InFlight # {}) ~> (InFlight = {})

\* A loop that was exhausted after errors of more than one class.
C12_Witness ==
  \E c \in Returned :
    /\ calls[c].result = "network error"
    /\ calls[c].lastError = "network error"
    /\ ~calls[c].only429

\* C13: emergencyMode is false initially and a step turns it on only by ending
\* a cycle whose attempt budget is exhausted and whose last attempt answered
\* HTTP 429.
C13_EmergencyOnlyAfterRateLimit ==
  /\ ~state.emergencyMode
  /\ [][(~state.emergencyMode /\ state'.emergencyMode) =>
          \E c \in InFlight :
            /\ calls[c].pc = "fetch"
            /\ calls[c].attemptsCount = maxAttempts
            /\ calls'[NewIndex(c)].pc = "done"
            /\ calls'[NewIndex(c)].result = "HTTP 429"]_vars

\* C14: with emergencyMode on, a timer callback clears it when more than twice
\* the emergency cooldown has passed since lastAPICall and leaves it on before
\* that, nothing but a timer callback or a successful call clears it, and with
\* the timer firing and time passing it is eventually cleared (as far as the
\* clearing instant lies within the explored time).
C14_EmergencyAutoClears ==
  /\ [](state.emergencyMode =>
          (cooldownMonitor(World, now).state.emergencyMode
             <=> now - state.lastAPICall <= 2 * EMERGENCY_COOLDOWN))
  /\ [][(state.emergencyMode /\ ~state'.emergencyMode) =>
          \/ now - state.lastAPICall > 2 * EMERGENCY_COOLDOWN
          \/ \E c \in InFlight : calls'[NewIndex(c)].result = "success"]_vars
  /\ (state.emergencyMode
        /\ state.lastAPICall + 2 * EMERGENCY_COOLDOWN + TIME_STEP
             <= StartTime + MaxEmergencySteps * TIME_STEP)
       ~> ~state.emergencyMode

\* Emergency mode at the first instant at which the timer clears it.
C14_Witness ==
  /\ state.emergencyMode
  /\ now - state.lastAPICall = 2 * EMERGENCY_COOLDOWN + TIME_STEP
  /\ ~cooldownMonitor(World, now).state.emergencyMode

\* C15: when a message is published every registered listener is called with
\* it, in registration order, also those registered after a listener that throws,
\* and no exception leaves the notification.
C15_ThrowingListenerIsolated ==
  notified.published =>
    /\ Len(notified.received) = Len(thoughtBubbleListeners)
    /\ \A i \in 1 .. Len(thoughtBubbleListeners) :
         /\ notified.received[i].listener = thoughtBubbleListeners[i]
         /\ notified.received[i].message = notified.received[1].message
    /\ ~notified.escaped
    /\ \E c \in Returned :
         /\ Len(calls[c].bubbles) = 1
         /\ \A i \in 1 .. Len(notified.received) :
              notified.received[i].message = calls[c].bubbles[1]

\* A message published to a listener that throws, registered before one that
\* does not.
C15_Witness ==
  /\ notified.published
  /\ \E i, j \in 1 .. Len(thoughtBubbleListeners) :
       /\ i < j
       /\ thoughtBubbleListeners[i].throws
       /\ ~thoughtBubbleListeners[j].throws

\* The cycle of the scenario: the first call, started by a first signal of type
\* clipboard_update.
FirstClipboardCycle(call) ==
  /\ state.totalAPICallsMade = 1
  /\ call.signal.id = 1
  /\ call.signal.type = "clipboard_update"

\* C16: the first signal, of type clipboard_update, starts a call at once, with
\* lastAPICall set to that instant; its first attempt uses key 0; after an HTTP
\* 500 the second attempt of the cycle uses key 1; when that one succeeds the
\* cycle publishes exactly one message, not the offline fallback, and
\* lastAPICall is still the instant the call started.
C16_FailoverScenario ==
  /\ [](\A c \in InFlight :
          FirstClipboardCycle(calls[c]) =>
            /\ state.lastAPICall = calls[c].signal.timestamp
            /\ calls[c].attemptsCount = 1 => calls[c].keyIndex = 0
            /\ (calls[c].attemptsCount = 2 /\ calls[c].pc = "fetch"
                  /\ calls[c].lastError = "HTTP 500") => calls[c].keyIndex = 1)
  /\ [][\A c \in InFlight :
          (/\ FirstClipboardCycle(calls[c])
           /\ calls[c].attemptsCount = 2
           /\ calls[c].lastError = "HTTP 500"
           /\ calls'[NewIndex(c)].result = "success") =>
            /\ Len(calls'[NewIndex(c)].bubbles) = 1
            /\ calls'[NewIndex(c)].bubbles[1].format # "offline_fallback"
            /\ notified'.published
            /\ state'.lastAPICall = calls[c].signal.timestamp]_vars

\* The scenario at its end: key 0 failed once, key 1 answered, one message out.
C16_Witness ==
  \E c \in Returned :
    /\ FirstClipboardCycle(calls[c])
    /\ calls[c].result = "success"
    /\ Len(calls[c].bubbles) = 1
    /\ keyStatuses[0].failCount = 1
    /\ keyStatuses[1].failCount = 0
    /\ currentIndex = 2 % NumKeys
    /\ state.lastAPICall = calls[c].signal.timestamp

\* C17: in every reachable state signalReceived can be called with every signal
\* type and returns a coordinator state: the signal is counted, the queue stays
\* within its bound, a call it starts is still pending when it returns, and it
\* settles no call that was in flight and publishes nothing.
C17_SignalAlwaysReturns ==
  \A type \in SignalTypes, data \in Payloads :
    LET w == signalReceived(World, type, data, now)
    IN /\ w.state.totalSignalsReceived = state.totalSignalsReceived + 1
       /\ Len(w.state.signalQueue) <= MAX_QUEUE_SIZE
       /\ w.state.totalAPICallsMade \in
            {state.totalAPICallsMade, state.totalAPICallsMade + 1}
       /\ Len(w.calls) = Len(calls) + (w.state.totalAPICallsMade - state.totalAPICallsMade)
       /\ \A c \in 1 .. Len(calls) : w.calls[c] = calls[c]
       /\ \A c \in (Len(calls) + 1) .. Len(w.calls) :
            /\ w.calls[c].pc = "fetch"
            /\ w.calls[c].result = "pending"
            /\ w.calls[c].bubbles = << >>
       /\ ~w.notified.published

\* The states the claim lists, at once: a full queue that has overflowed, a call
\* in flight, emergency mode.
C17_Witness ==
  /\ state.emergencyMode
  /\ InFlight # {}
  /\ Len(state.signalQueue) = MAX_QUEUE_SIZE
  /\ state.totalSignalsReceived > MAX_QUEUE_SIZE

\* C18: the system instruction and the user query of a call are those of every
\* call made for a signal of the same type with any other payload, at the same
\* time of day, for the same city.
C18_PromptIgnoresPayload ==
  \A c \in 1 .. Len(calls) :
    \A data \in Payloads :
      LET signal == [calls[c].signal EXCEPT !.data = data]
          env == [timeOfDay |-> calls[c].lightweightContext.timeOfDay,
                  city |-> calls[c].lightweightContext.city]
          other == createLightweightContext(signal, env, calls[c].signal.timestamp)
      IN generateThoughtMessage(other) = calls[c].prompt

\* A call for a window_change signal whose payload names a window: the title
\* is in the context of the call.
C18_Witness ==
  \E c \in InFlight :
    /\ calls[c].signal.type = "window_change"
    /\ calls[c].signal.data.title = "passwords.txt"
    /\ calls[c].lightweightContext.windowTitle = "passwords.txt"
    /\ calls[c].lightweightContext.timeOfDay = "evening"

\* C19: in every reachable state of the pool a key is unhealthy exactly when its
\* failCount is at least MAX_FAIL_COUNT; recordFailure, recordSuccess and the
\* forced reset, applied to a reachable pool, keep it so.
C19_UnhealthyIffFailed ==
  LET Consistent(ks) == \A i \in KeyIndexes : ks[i].isHealthy <=> ks[i].failCount < 3
  IN /\ Consistent(keyStatuses)
     /\ \A i \in KeyIndexes :
          /\ Consistent(recordFailure(keyStatuses, i, now))
          /\ Consistent(recordSuccess(keyStatuses, i))
     /\ Consistent(resetAllKeyStatus(keyStatuses))
     /\ Consistent(getNextApiKey(keyStatuses, currentIndex, now).keyStatuses)

\* A key that failed again when probed after its cooldown.
C19_Witness ==
  \E i \in KeyIndexes :
    /\ ~keyStatuses[i].isHealthy
    /\ keyStatuses[i].failCount > MAX_FAIL_COUNT

\* C20: cooldownActive is true exactly when a call is in flight or less than the
\* applicable cooldown has passed since lastAPICall.
C20_CooldownActiveIff ==
  state.cooldownActive <=>
    \/ InFlight # {}
    \/ now - state.lastAPICall <
         (IF state.emergencyMode THEN EMERGENCY_COOLDOWN ELSE COOLDOWN_DURATION)


\* C21: reading the health report or the coordinator statistics changes no
\* state (health fields, cursor, queue, counters, lastAPICall, cooldownActive,
\* emergencyMode), and the report's healthy count is the number of keys whose
\* isHealthy is true.
C21_DiagnosticsReadOnly ==
  LET stats == getCoordinatorStats(World, now)
      health == getApiHealthReport(World)
  IN /\ stats.world.state = state
     /\ stats.world.keyStatuses = keyStatuses
     /\ stats.world.currentIndex = currentIndex
     /\ health.world.state = state
     /\ health.world.keyStatuses = keyStatuses
     /\ health.world.currentIndex = currentIndex
     /\ health.report.healthy = Cardinality({i \in KeyIndexes : keyStatuses[i].isHealthy})
     /\ health.report.total = NumKeys

\* The diagnostics are read with a key unhealthy, another healthy and the
\* cooldown of the second call running.
C21_Witness ==
  /\ \E i \in KeyIndexes : ~keyStatuses[i].isHealthy
  /\ \E i \in KeyIndexes : keyStatuses[i].isHealthy
  /\ state.totalAPICallsMade = MaxCalls
  /\ state.cooldownActive
  /\ getCoordinatorStats(World, now).stats.cooldownTimeRemaining > 0

\* The cooldown that applies now has elapsed since the last call started.
CooldownElapsed ==
  now - state.lastAPICall >=
    (IF state.emergencyMode THEN EMERGENCY_COOLDOWN ELSE COOLDOWN_DURATION)

\* C22: when signals wait in the queue, no call is in flight and the applicable
\* cooldown has elapsed since lastAPICall, the 30-second timer eventually starts
\* a call for a queued signal, even if no further signal arrives.
C22_TimerStartsQueued ==
  \A n \in 0 .. (MaxCalls - 1) :
    (/\ Len(state.signalQueue) > 0
     /\ InFlight = {}
     /\ CooldownElapsed
     /\ state.totalAPICallsMade = n)
      ~> (state.totalAPICallsMade > n)

C24_SettleReleases ==
  [][\A c \in InFlight :
       calls'[NewIndex(c)].pc = "done" =>
         /\ ~state'.cooldownActive
         /\ calls'[NewIndex(c)].result = "success" =>
              /\ Len(calls'[NewIndex(c)].bubbles) = 1
              /\ notified'.published
              /\ ~state'.emergencyMode
              /\ state'.signalQueue = state.signalQueue
              /\ state'.lastAPICall = state.lastAPICall
              /\ state'.totalAPICallsMade = state.totalAPICallsMade
              /\ state'.totalSignalsReceived = state.totalSignalsReceived]_vars

\* A call has just settled successfully while signals wait in the queue.
C24_Witness ==
  \E c \in Returned :
    /\ calls[c].result = "success"
    /\ Len(calls[c].bubbles) = 1
    /\ notified.published
    /\ Len(state.signalQueue) > 0
    /\ ~state.cooldownActive

\* Key i is unhealthy and failed HEALTH_CHECK_COOLDOWN ago or less.
CoolingDown(ks, i, t) ==
  ~ks[i].isHealthy /\ t - ks[i].lastFailTime <= HEALTH_CHECK_COOLDOWN

\* C25: when some key is healthy or has a last failure older than
\* HEALTH_CHECK_COOLDOWN, getNextApiKey returns the first such key in cyclic
\* order from the cursor and changes no key's health fields; and the key it
\* returns is never one that is unhealthy with a failure 5 minutes old or less.
C25_FirstUsableFromCursor ==
  LET r == getNextApiKey(keyStatuses, currentIndex, now)
      distance == (r.index - currentIndex + NumKeys) % NumKeys
  IN /\ ~CoolingDown(r.keyStatuses, r.index, now)
     /\ (\E i \in KeyIndexes : ~CoolingDown(keyStatuses, i, now)) =>
          /\ ~CoolingDown(keyStatuses, r.index, now)
          /\ \A d \in 0 .. (distance - 1) :
               CoolingDown(keyStatuses, (currentIndex + d) % NumKeys, now)
          /\ r.keyStatuses = keyStatuses

\* The key under the cursor is unhealthy and still cooling down while another
\* is usable, and a call made now has to pass over it.
C25_Witness ==
  /\ CoolingDown(keyStatuses, currentIndex, now)
  /\ \E i \in KeyIndexes : ~CoolingDown(keyStatuses, i, now)
  /\ getNextApiKey(keyStatuses, currentIndex, now).index # currentIndex

\* N consecutive getNextApiKey calls from cursor cur return the indexes in seen.
RECURSIVE ReturnedByCalls(_, _, _, _)
ReturnedByCalls(ks, cur, t, n) ==
  IF n = 0
    THEN << >>
    ELSE LET r == getNextApiKey(ks, cur, t)
         IN << r.index >> \o ReturnedByCalls(r.keyStatuses, r.currentIndex, t, n - 1)

\* C26: after every getNextApiKey call that returns index i the cursor is
\* (i + 1) mod N, on the normal path and on the forced-reset path alike: for the
\* calls the retry loops made and for the call that could be made now; and with
\* every key healthy N consecutive calls return each index exactly once.
C26_CursorFollowsReturned ==
  /\ lastScan.examined > 0 => currentIndex = (lastScan.index + 1) % NumKeys
  /\ LET r == getNextApiKey(keyStatuses, currentIndex, now)
     IN r.currentIndex = (r.index + 1) % NumKeys
  /\ (\A i \in KeyIndexes : keyStatuses[i].isHealthy) =>
       LET seen == ReturnedByCalls(keyStatuses, currentIndex, now, NumKeys)
       IN {seen[k] : k \in 1 .. NumKeys} = KeyIndexes

\* C27: in the retry loop, after a failed attempt that is not the last, an
\* HTTP 429 is followed at once by the next attempt, any other failure by the
\* 800 ms delay and only then by the next attempt; after the last attempt the
\* loop returns with no delay.
C27_DelayUnlessRateLimited ==
  [][\A c \in InFlight :
       LET before == calls[c]
           after == calls'[NewIndex(c)]
       IN /\ (before.pc = "fetch" /\ after # before /\ after.result # "success") =>
               IF before.attemptsCount < maxAttempts
                 THEN IF after.lastError = "HTTP 429"
                        THEN /\ after.pc = "fetch"
                             /\ after.attemptsCount = before.attemptsCount + 1
                        ELSE /\ after.pc = "delay"
                             /\ after.attemptsCount = before.attemptsCount
                 ELSE after.pc = "done"
          /\ (before.pc = "delay" /\ after # before) =>
               /\ after.pc = "fetch"
               /\ after.attemptsCount = before.attemptsCount + 1]_vars

\* C28: an attempt answered with a text that is not the structured
\* {icon, message} shape is recorded with recordSuccess on its key (failCount 0,
\* healthy), never as a failure, and ends the retry loop with a success whose
\* message is the raw text and whose icon is the default icon: for every pending
\* attempt of every reachable state.
C28_PlainTextIsSuccess ==
  \A c \in InFlight : \A text \in AiTexts :
    calls[c].pc = "fetch" =>
      LET k == calls[c].keyIndex
          w == attemptSucceeded(World, c, "plain", text)
      IN /\ w.keyStatuses[k].isHealthy
         /\ w.keyStatuses[k].failCount = 0
         /\ \A i \in KeyIndexes \ {k} : w.keyStatuses[i] = keyStatuses[i]
         /\ w.calls[c].pc = "done"
         /\ w.calls[c].result = "success"
         /\ Len(w.calls[c].bubbles) = 1
         /\ w.calls[c].bubbles[1].icon = "thought"
         /\ w.calls[c].bubbles[1].message = text

\* An attempt is pending on a key that is unhealthy: a plain-text answer would
\* have to restore it.
C28_Witness ==
  \E c \in InFlight :
    /\ calls[c].pc = "fetch"
    /\ ~keyStatuses[calls[c].keyIndex].isHealthy
    /\ calls[c].attemptsCount > 1

\* C29: the context of every published message names the path that produced
\* it: json_structured for a structured {icon, message} answer, text_fallback
\* for an answer taken as raw text, offline_fallback for the canned message sent
\* after a failure; a raw-text answer is never tagged json_structured. Stated for
\* the cycles that have just returned and for every pending attempt.
C29_ContextNamesPath ==
  /\ \A c \in Returned : \A b \in Items(calls[c].bubbles) :
       calls[c].result # "success" => b.format = "offline_fallback"
  /\ \A c \in InFlight : \A text \in AiTexts :
       calls[c].pc = "fetch" =>
         /\ attemptSucceeded(World, c, "structured", text).calls[c].bubbles[1].format
              = "json_structured"
         /\ attemptSucceeded(World, c, "plain", text).calls[c].bubbles[1].format
              = "text_fallback"

\* The attempts whose request to the generate endpoint has not been answered.
Outstanding == {c \in 1 .. Len(calls) : calls[c].pc = "fetch"}

\* C30: at most one request to the generate endpoint is outstanding in the
\* whole process at any time: no retry loop, the context service's included,
\* has a request pending while another has.
C30_OneRequestOutstanding == Cardinality(Outstanding) <= 1

\* C31: the step in which an attempt settles records exactly one outcome, and
\* records it against the key getNextApiKey returned for that attempt: the pool
\* after the step is the pool before it with recordSuccess, or recordFailure at
\* the current time, applied once to that key (and reset as a whole when the
\* next attempt, started in the same step, found every key down), also when two
\* retry loops are interleaved at their awaits.
C31_OneOutcomePerAttempt ==
  [][\A c \in InFlight :
       LET before == calls[c]
           after == calls'[NewIndex(c)]
           recorded == IF after.result = "success"
                         THEN recordSuccess(keyStatuses, before.keyIndex)
                         ELSE recordFailure(keyStatuses, before.keyIndex, now)
       IN (before.pc = "fetch" /\ after # before) =>
            \/ keyStatuses' = recorded
            \/ /\ after.pc = "fetch"
               /\ lastScan'.reset
               /\ keyStatuses' = resetAllKeyStatus(recorded)]_vars

\* Two retry loops are interleaved: each has a fetch pending on a different key
\* and the pool has since handed a key to the other loop.
C31_Witness ==
  \E c, d \in InFlight :
    /\ c # d
    /\ calls[c].pc = "fetch" /\ calls[d].pc = "fetch"
    /\ calls[c].keyIndex # calls[d].keyIndex
    /\ calls[c].attemptsCount > 1
    /\ currentIndex # (calls[c].keyIndex + 1) % NumKeys

\* C34: while the monitoring is stopped (stopMonitoring has returned and no
\* startMonitoring has been called since) the runtime holds no clipboard,
\* window, context-update or weather interval, also when stopMonitoring was
\* called while the initial weather fetch of startMonitoring was pending.
C34_StoppedMeansNoTimers ==
  ~contextManager.isMonitoring => contextManager.intervals = {}

\* The invocations of initializeCoreServices that went past the guard and ran
\* initialisation steps.
Initialising ==
  {i \in 1 .. Len(mainServiceManager.invocations) :
     mainServiceManager.invocations[i] # "skipped"}

\* C32: the core services are initialised at most once: of all the
\* initializeCoreServices calls made, also those made while an earlier one is
\* still awaiting a service, at most one runs the initialisation steps.
C32_InitialisedOnce == Cardinality(Initialising) <= 1

\* C33: at most one Phaser.Game is created between two destroy() calls, also when
\* initialize() is called again while an earlier initialize() is still awaiting.
C33_OneGameBetweenDestroys == phaserManager.created <= 1

\* C35: without a reset, the calls started never outnumber the signals received
\* (the reported efficiency ratio is at most 1): each start takes one signal,
\* counted on arrival, out of the queue.
C35_CallsAtMostSignals == state.totalAPICallsMade <= state.totalSignalsReceived

\* Every signal received so far was consumed by a call of its own.
C35_Witness ==
  /\ state.totalAPICallsMade = MaxCalls
  /\ state.totalSignalsReceived = MaxCalls
  /\ Len(state.signalQueue) = 0

\* A signalReceived step in emergency mode counts the signal and does nothing
\* else: no key is scanned, no listener is called, no call is started.
EmergencySignalFrame ==
  (state.emergencyMode /\ SignalStep) =>
    /\ state' = [state EXCEPT !.totalSignalsReceived = @ + 1]
    /\ calls' = SelectSeq(calls, LAMBDA call : call.pc # "done")
    /\ lastScan' = NoScan
    /\ notified' = NoNotification
    /\ UNCHANGED << keyStatuses, currentIndex, thoughtBubbleListeners >>

\* No step taken in emergency mode starts a call.
NoStartInEmergency == state.emergencyMode => ~StartStep

\* Emergency mode is left in a step of the timer, never in the step in which a
\* call returns.
ClearedByTickOnly ==
  (state.emergencyMode /\ ~state'.emergencyMode) =>
    \A c \in InFlight : calls'[NewIndex(c)].pc # "done"

\* C36: while emergencyMode is true, signalReceived increments
\* totalSignalsReceived and changes nothing else (queue, lastAPICall,
\* totalAPICallsMade, cooldownActive and emergencyMode unchanged, no external call
\* started), so that no call starts until a tick has cleared emergencyMode.
C36_EmergencySignalOnlyCounts ==
  [][EmergencySignalFrame /\ NoStartInEmergency /\ ClearedByTickOnly]_vars

\* C37: from a pool in which every credential has failCount 0, one retry cycle
\* with no other caller attempts no credential more than twice, so that a cycle
\* in which every attempt fails leaves every credential healthy.
C37_OneCycleKeepsPoolHealthy ==
  (Len(calls) <= 1 /\ state.totalAPICallsMade <= 1) =>
    \A i \in KeyIndexes :
      /\ keyStatuses[i].failCount <= 2
      /\ keyStatuses[i].failCount < MAX_FAIL_COUNT
      /\ keyStatuses[i].isHealthy

\* The cycle has used up its attempts, every one of them failed.
C37_Witness ==
  /\ state.totalAPICallsMade = 1
  /\ \E c \in Returned : calls[c].result \in FailureOutcomes
  /\ \A i \in KeyIndexes : keyStatuses[i].failCount = 2 /\ keyStatuses[i].isHealthy

\* C38: an unhealthy key becomes healthy only by a recordSuccess on it or by a
\* forced reset; when an attempt on an unhealthy key (a probe after its
\* cooldown) fails, the key's lastFailTime becomes the current time and it stays
\* unhealthy; and getNextApiKey hands out no unhealthy key whose last failure is
\* HEALTH_CHECK_COOLDOWN old or less, unless it resets the pool.
C38_FailedProbeCoolsDown ==
  [][/\ \A i \in KeyIndexes :
          (~keyStatuses[i].isHealthy /\ keyStatuses'[i].isHealthy) =>
            \/ lastScan'.reset
            \/ \E c \in InFlight :
                 /\ calls[c].pc = "fetch" /\ calls[c].keyIndex = i
                 /\ calls'[NewIndex(c)].result = "success"
     /\ \A c \in InFlight :
          LET before == calls[c]
              after == calls'[NewIndex(c)]
              k == before.keyIndex
          IN (/\ before.pc = "fetch" /\ after # before /\ after.result # "success"
              /\ ~keyStatuses[k].isHealthy) =>
               \/ lastScan'.reset
               \/ /\ keyStatuses'[k].lastFailTime = now
                  /\ ~keyStatuses'[k].isHealthy
                  /\ after.pc = "fetch" => after.keyIndex # k
     /\ \A i \in KeyIndexes :
          (CoolingDown(keyStatuses, i, now) /\ lastScan' # NoScan /\ lastScan'.index = i) =>
            lastScan'.reset]_vars

\* A probe of an unhealthy key has just failed and the loop goes on with
\* another key.
C38_Witness ==
  \E i \in KeyIndexes :
    /\ keyStatuses[i].failCount > MAX_FAIL_COUNT
    /\ CoolingDown(keyStatuses, i, now)
    /\ keyStatuses[i].lastFailTime = now
    /\ \E c \in InFlight : calls[c].pc \in {"fetch", "delay"} /\ calls[c].lastError # ""

\* How many times x occurs in the sequence s.
Occurrences(s, x) == Cardinality({i \in 1 .. Len(s) : s[i] = x})

\* C39: when a listener removes itself from inside its callback during a
\* notification, every other listener registered when the notification started
\* still receives the message exactly once (once per registration).
C39_SelfRemovalSkipsNobody ==
  notified.published =>
    \A listener \in Listeners :
      Occurrences([i \in 1 .. Len(notified.received) |-> notified.received[i].listener],
                  listener)
        = Occurrences(notified.registered, listener)

\* C40: in the focus manager at most one completion timer is pending at any
\* time, a timer armed for one session never completes another session, and a
\* start is rejected while a session is uncompleted, under every order of
\* startFocusSession, startBreak, pauseSession, resumeSession and skipSession.
C40_OneTimerPerSession ==
  /\ Cardinality(focusManager.timeouts) <= 1
  /\ \A i \in 1 .. Len(focusManager.sessions) :
       focusManager.sessions[i].armedFor \in {0, focusManager.sessions[i].id}
  /\ focusManager.nextSession - 1 <=
       Len(focusManager.sessions) + (IF focusManager.currentSession = NoSession THEN 0 ELSE 1)

====
